---- MODULE Spec2Model ----
(***************************************************************************)
(* Model of the two sound-extraction scripts of soundcn.mp3:               *)
(*   - the static variant   (src/extract-sounds.ts), which reads each      *)
(*     TypeScript file as text and pattern-matches name / dataUri;         *)
(*   - the dynamic variant  (src/unnamed/part_000), which imports each     *)
(*     file as a module and temporarily patches use-sound.ts.              *)
(* A JavaScript string is a sequence of one-character strings, a byte      *)
(* buffer is a sequence of numbers in 0..255.                              *)
(***************************************************************************)
EXTENDS Integers, Sequences, FiniteSets, TLC

\* ------------------------------------------------------------------------
\* Bounds of the model
\* ------------------------------------------------------------------------

\* largest number of directory entries under SOUNDS_DIR (specification Spec)
MaxFiles == 2

\* longest dataUri of the decoder specification (specification SpecDecode)
MaxUriLen == 5

\* ------------------------------------------------------------------------
\* JavaScript values
\* ------------------------------------------------------------------------

\* the value `undefined` (an array index out of range, a missing property)
Undefined == <<"undefined">>

\* the value `null` of `string | null`
Null == <<"null">>

\* `${v}` : the string conversion atob applies to its argument
ToStr(v) == IF v = Undefined THEN <<"u", "n", "d", "e", "f", "i", "n", "e", "d">> ELSE v

\* !v for a value that is a string, undefined or null
Falsy(v) == v = Undefined \/ v = Null \/ v = <<>>

\* index of the first occurrence of c in s at or after position from, 0 if none
RECURSIVE IndexOf(_, _, _)
IndexOf(s, c, from) ==
    IF from > Len(s) THEN 0
    ELSE IF s[from] = c THEN from
    ELSE IndexOf(s, c, from + 1)

\* String.prototype.split(sep) for a one-character separator: every segment,
\* in order, an empty segment included
RECURSIVE SplitFrom(_, _, _)
SplitFrom(s, sep, from) ==
    LET k == IndexOf(s, sep, from)
    IN  IF k = 0 THEN << SubSeq(s, from, Len(s)) >>
        ELSE << SubSeq(s, from, k - 1) >> \o SplitFrom(s, sep, k + 1)

Split(s, sep) == SplitFrom(s, sep, 1)

\* arr[i] of a JavaScript array (0-based), undefined when out of range
At(arr, i) == IF i + 1 <= Len(arr) THEN arr[i + 1] ELSE Undefined

\* ------------------------------------------------------------------------
\* Base64
\* ------------------------------------------------------------------------

B64Alphabet ==
    << "A", "B", "C", "D", "E", "F", "G", "H", "I", "J", "K", "L", "M",
       "N", "O", "P", "Q", "R", "S", "T", "U", "V", "W", "X", "Y", "Z",
       "a", "b", "c", "d", "e", "f", "g", "h", "i", "j", "k", "l", "m",
       "n", "o", "p", "q", "r", "s", "t", "u", "v", "w", "x", "y", "z",
       "0", "1", "2", "3", "4", "5", "6", "7", "8", "9", "+", "/" >>

IsB64Digit(c) == \E i \in 1..Len(B64Alphabet) : B64Alphabet[i] = c

B64Val(c) == (CHOOSE i \in 1..Len(B64Alphabet) : B64Alphabet[i] = c) - 1

IsAsciiWhitespace(c) == c \in {" ", "\t", "\n", "\f", "\r"}

\* the bytes of a sequence of 6-bit values: 4 values give 3 bytes, a trailing
\* group of 3 gives 2 bytes, of 2 gives 1 byte, of 1 gives nothing
RECURSIVE BytesOfSextets(_)
BytesOfSextets(v) ==
    IF Len(v) < 2 THEN <<>>
    ELSE LET b1 == (v[1] * 4 + (v[2] \div 16)) % 256
         IN  IF Len(v) = 2 THEN << b1 >>
             ELSE LET b2 == ((v[2] % 16) * 16 + (v[3] \div 4)) % 256
                  IN  IF Len(v) = 3 THEN << b1, b2 >>
                      ELSE LET b3 == ((v[3] % 4) * 64 + v[4]) % 256
                           IN  << b1, b2, b3 >> \o BytesOfSextets(SubSeq(v, 5, Len(v)))

\* the legal digits Node's decoder consumes: it skips every character that is
\* no base64 digit and stops at the first '='
RECURSIVE LegalDigits(_)
LegalDigits(s) ==
    IF s = <<>> THEN <<>>
    ELSE IF IsB64Digit(s[1]) THEN << B64Val(s[1]) >> \o LegalDigits(Tail(s))
    ELSE IF s[1] = "=" THEN <<>>
    ELSE LegalDigits(Tail(s))

\* Buffer.from(s, 'base64'): never throws
BufferFromBase64(s) == BytesOfSextets(LegalDigits(s))

\* number of characters of s that are no ASCII whitespace, and of '=' signs
CountNotWhitespace(s) == Cardinality({ i \in 1..Len(s) : ~ IsAsciiWhitespace(s[i]) })
CountEqualSigns(s) == Cardinality({ i \in 1..Len(s) : s[i] = "=" })

\* atob(s) throws InvalidCharacterError (forgiving-base64 of the WHATWG
\* Infra standard)
AtobThrows(s) ==
    LET n  == CountNotWhitespace(s)
        eq == CountEqualSigns(s)
        reminder == IF n % 4 = 0 THEN (n - eq) % 4 ELSE n % 4
    IN  \/ \E i \in 1..Len(s) :
              ~ (IsB64Digit(s[i]) \/ s[i] = "=" \/ IsAsciiWhitespace(s[i]))
        \/ \E i, j \in 1..Len(s) : i < j /\ s[i] = "=" /\ IsB64Digit(s[j])
        \/ eq > 2
        \/ (n % 4 # 0 /\ eq > 0)
        \/ reminder = 1

\* the outcome of a call that may throw
Ok(b) == [ok |-> TRUE, bytes |-> b]
Thrown == [ok |-> FALSE, bytes |-> <<>>]

\* atob(v) followed by the charCodeAt loop
Atob(v) ==
    LET s == ToStr(v)
    IN  IF AtobThrows(s) THEN Thrown ELSE Ok(BufferFromBase64(s))

\* decodeAudioDataUri that decodes the whole string when it holds no comma
decodeWholeWithoutComma(dataUri) ==
    LET parts == Split(dataUri, ",")
        base64 == IF Len(parts) >= 2 THEN parts[2] ELSE dataUri
    IN  IF Falsy(base64) THEN Thrown ELSE Ok(BufferFromBase64(base64))

\* decodeAudioDataUri that decodes everything after the first comma
decodeAfterFirstComma(dataUri) ==
    LET k == IndexOf(dataUri, ",", 1)
        base64 == IF k = 0 THEN Undefined ELSE SubSeq(dataUri, k + 1, Len(dataUri))
    IN  IF Falsy(base64) THEN Thrown ELSE Ok(BufferFromBase64(base64))

\* decodeAudioDataUri of the static variant
decodeAudioDataUri(dataUri) ==
    LET base64 == At(Split(dataUri, ","), 1)
    IN  IF Falsy(base64) THEN Thrown ELSE Ok(BufferFromBase64(base64))

\* the inline decoding of the dynamic variant: split, atob, byte loop
decodeInline(dataUri) ==
    LET base64 == At(Split(dataUri, ","), 1)
    IN  Atob(base64)

\* ------------------------------------------------------------------------
\* The file system the scripts run on
\* ------------------------------------------------------------------------

\* a directory entry under SOUNDS_DIR: its suffix, whether reading (static) or
\* importing (dynamic) it succeeds, and the objects it declares and exports,
\* in textual order; a property an object lacks is Undefined
File(ext, readable, exports) == [ext |-> ext, readable |-> readable, exports |-> exports]
Export(name, dataUri) == [name |-> name, dataUri |-> dataUri]

UriValid1 == << "x", ",", "Q", "U", "J", "D" >>
UriValid2 == << "x", ",", "U", "V", "E", "=" >>
UriNoComma == << "x", "Q", "U", "J", "D" >>
UriInvalid == << "x", ",", "Q", "U", "$", "D" >>
UriMultiComma == << "x", ",", "Q", "U", "J", "D", ",", "U", "V", "E", "=" >>

NameA == << "a" >>
NameB == << "b" >>

\* the directory entries the pipeline specification draws from
FileCatalogue ==
    { File("ts", FALSE, <<>>),
      File("ts", TRUE, <<>>),
      File("ts", TRUE, << Export(NameA, UriValid1) >>),
      File("ts", TRUE, << Export(NameA, UriValid2) >>),
      File("ts", TRUE, << Export(NameA, UriNoComma) >>),
      File("ts", TRUE, << Export(NameA, UriInvalid) >>),
      File("ts", TRUE, << Export(NameA, UriMultiComma) >>),
      File("ts", TRUE, << Export(NameB, UriValid1) >>),
      File("ts", TRUE, << Export(NameB, Undefined), Export(NameA, UriValid2) >>),
      File("d.ts", TRUE, << Export(NameA, UriValid2) >>),
      File("mp3", TRUE, <<>>) }

\* the content of use-sound.ts: a sequence of lines, a line a sequence of words
Missing == << << "ENOENT" >> >>

\* originalUseSoundContent = null
NullContent == << << "null" >> >>
DecodeDecl == << "async", "function", "decodeAudioData" >>
UseSoundGood ==
    << << "import", "react" >>, DecodeDecl, << "export", "function", "useSound" >> >>
UseSoundTwice == << DecodeDecl, DecodeDecl >>
UseSoundChanged ==
    << << "export", "async", "function", "decodeAudioData" >>, << "  " >> \o DecodeDecl >>
UseSoundCatalogue == { UseSoundGood, UseSoundTwice, UseSoundChanged, Missing }

\* the characters the decoder specification builds dataUris from
UriAlphabet == { "Q", "U", ",", "$", "=" }
AllUris == UNION { [1..n -> UriAlphabet] : n \in 0..MaxUriLen }

\* an output directory left by an earlier run
StaleOutput == [n \in { NameA \o << ".", "mp3" >> } |-> << 0 >>]
NoOutput == [n \in {} |-> <<>>]

\* ------------------------------------------------------------------------
\* State
\* ------------------------------------------------------------------------

VARIABLES
    variant,        \* "static" (extract-sounds.ts) or "dynamic" (part_000)
    pc,             \* position in main
    outDirExists,   \* fs.existsSync(OUTPUT_DIR)
    soundsDirExists,\* fs.existsSync(SOUNDS_DIR)
    dirEntries,     \* the entries under SOUNDS_DIR, in walker order
    tsFiles,        \* const tsFiles
    index,          \* loop index: number of files already processed
    successCount,
    failureCount,
    outFiles,       \* the files of OUTPUT_DIR: file name -> bytes
    useSoundFile,   \* content of USE_SOUND_FILE on disk
    useSoundStart,  \* content of USE_SOUND_FILE when the process started
    originalUseSoundContent,
    raised,         \* an error is propagating out of main's try block
    exitCode,       \* the exit code of the process, read once pc = "exited"
    log,            \* the per-file console line of each processed file
    summary,        \* the counts the summary printed, <<>> before
    trace           \* calls made on the file system and the module loader, and
                    \* the "Fatal error" line of the handler of main().catch

vars == << variant, pc, outDirExists, soundsDirExists, dirEntries, tsFiles, index,
           successCount, failureCount, outFiles, useSoundFile, useSoundStart,
           originalUseSoundContent, raised, exitCode, log, summary, trace >>

\* ------------------------------------------------------------------------
\* Helpers of the scripts
\* ------------------------------------------------------------------------

\* findAllTsFiles: the entries whose name has a recognised suffix
\*   static : file.endsWith('.ts') || file.endsWith('.tsx')
\*   dynamic: file.endsWith('.ts') && !file.endsWith('.d.ts')
findAllTsFiles(v, entries) ==
    LET Keep(f) == IF v = "static" THEN f.ext \in { "ts", "d.ts", "tsx" }
                   ELSE f.ext = "ts"
    IN  SelectSeq(entries, Keep)

\* the first capture of /key:\s*["']([^"']+)["']/ in the text, Null if none
RECURSIVE FirstMatch(_, _)
FirstMatch(exports, key) ==
    IF exports = <<>> THEN Null
    ELSE LET val == IF key = "name" THEN exports[1].name ELSE exports[1].dataUri
         IN  IF val # Undefined /\ val # <<>> THEN val
             ELSE FirstMatch(Tail(exports), key)

\* extractSoundAssetFromTsFile of the static variant
extractSoundAssetFromTsFile(file) ==
    IF ~ file.readable THEN [kind |-> "read", name |-> Null, dataUri |-> Null]
    ELSE LET name == FirstMatch(file.exports, "name")
             dataUri == FirstMatch(file.exports, "dataUri")
         IN  IF Falsy(name) \/ Falsy(dataUri)
             THEN [kind |-> "extract", name |-> Null, dataUri |-> Null]
             ELSE [kind |-> "asset", name |-> name, dataUri |-> dataUri]

\* extractSoundAsset of the dynamic variant: the first exported object that
\* has both a name and a dataUri property
RECURSIVE extractSoundAsset(_)
extractSoundAsset(exports) ==
    IF exports = <<>> THEN [kind |-> "nosound", name |-> Null, dataUri |-> Null]
    ELSE IF exports[1].name # Undefined /\ exports[1].dataUri # Undefined
         THEN [kind |-> "asset", name |-> exports[1].name, dataUri |-> exports[1].dataUri]
         ELSE extractSoundAsset(Tail(exports))

\* path.join(OUTPUT_DIR, `${name}.mp3`), relative to OUTPUT_DIR
OutputPath(name) == name \o << ".", "mp3" >>

\* a write that keeps a file that is already there
WriteFileKeepsExisting(files, path, bytes) ==
    [p \in DOMAIN files \cup { path } |-> IF p \in DOMAIN files THEN files[p] ELSE bytes]

\* fs.writeFileSync(outputPath, buffer) on the files of OUTPUT_DIR
WriteFile(files, path, bytes) ==
    [p \in DOMAIN files \cup { path } |-> IF p = path THEN bytes ELSE files[p]]

\* the line of use-sound.ts the pattern /^(async\s+function\s+decodeAudioData)/m
\* matches
LineMatches(line) == Len(line) >= Len(DecodeDecl) /\ SubSeq(line, 1, Len(DecodeDecl)) = DecodeDecl

\* content.replace(pattern, 'export $1'): the first matching line only
RECURSIVE ReplaceFirst(_)
ReplaceFirst(content) ==
    IF content = <<>> THEN <<>>
    ELSE IF LineMatches(content[1]) THEN << << "export" >> \o content[1] >> \o Tail(content)
    ELSE << content[1] >> \o ReplaceFirst(Tail(content))

\* patchUseSoundFile without the test of the pattern
patchWithoutCheck(file, original) ==
    IF file = Missing
    THEN [file |-> file, original |-> original, wrote |-> FALSE, thrown |-> TRUE]
    ELSE [file |-> ReplaceFirst(file), original |-> file, wrote |-> TRUE, thrown |-> FALSE]

\* patchUseSoundFile: the file and the saved original after the call, whether
\* it wrote the file and whether it threw
patchUseSoundFile(file, original) ==
    IF file = Missing
    THEN [file |-> file, original |-> original, wrote |-> FALSE, thrown |-> TRUE]
    ELSE IF ~ \E i \in 1..Len(file) : LineMatches(file[i])
    THEN [file |-> file, original |-> file, wrote |-> FALSE, thrown |-> TRUE]
    ELSE [file |-> ReplaceFirst(file), original |-> file, wrote |-> TRUE, thrown |-> FALSE]

\* restoreUseSoundFile that forgets the saved original without writing it
restoreWithoutWrite(file, original) ==
    [file |-> file, original |-> NullContent, wrote |-> FALSE]

\* restoreUseSoundFile: the file and the saved original after the call
restoreUseSoundFile(file, original) ==
    IF original # NullContent
    THEN [file |-> original, original |-> NullContent, wrote |-> TRUE]
    ELSE [file |-> file, original |-> original, wrote |-> FALSE]

\* a call on the environment, as recorded in trace
Call(op, arg) == [op |-> op, arg |-> arg]

\* saveAsMp3: the files of OUTPUT_DIR after the call and its result; written
\* tells whether fs.writeFileSync succeeds (a failed write leaves the files
\* as they were)
saveAsMp3(files, bytes, outputPath, written) ==
    IF written THEN [files |-> WriteFile(files, outputPath, bytes), result |-> TRUE]
    ELSE [files |-> files, result |-> FALSE]

\* the body of the static forEach callback up to the save: the console line it
\* ends with unless the save is reached ("save"), the name and the bytes
StaticBody(file) ==
    LET soundAsset == extractSoundAssetFromTsFile(file)
    IN  IF soundAsset.kind # "asset"
        THEN [kind |-> soundAsset.kind, name |-> Null, bytes |-> <<>>]
        ELSE LET audioBuffer == decodeAudioDataUri(soundAsset.dataUri)
             IN  IF ~ audioBuffer.ok
                 THEN [kind |-> "decode", name |-> soundAsset.name, bytes |-> <<>>]
                 ELSE [kind |-> "save", name |-> soundAsset.name, bytes |-> audioBuffer.bytes]

\* the body of the dynamic for loop up to the save
DynamicBody(file) ==
    IF ~ file.readable
    THEN [kind |-> "process", name |-> Null, bytes |-> <<>>]
    ELSE LET soundAsset == extractSoundAsset(file.exports)
         IN  IF soundAsset.kind # "asset"
             THEN [kind |-> "nosound", name |-> Null, bytes |-> <<>>]
             ELSE LET audioBuffer == decodeInline(soundAsset.dataUri)
                  IN  IF ~ audioBuffer.ok
                      THEN [kind |-> "process", name |-> soundAsset.name, bytes |-> <<>>]
                      ELSE [kind |-> "save", name |-> soundAsset.name, bytes |-> audioBuffer.bytes]

LoopBody(v, file) == IF v = "static" THEN StaticBody(file) ELSE DynamicBody(file)

\* counters that miss the failureCount++ of a failed save
CountedDropsSaveFailure(kind, success, failure) ==
    IF kind = "ok" THEN << success + 1, failure >>
    ELSE IF kind = "save" THEN << success, failure >>
    ELSE << success, failure + 1 >>

\* successCount++ on the success line, failureCount++ on every other
Counted(kind, success, failure) ==
    IF kind = "ok" THEN << success + 1, failure >> ELSE << success, failure + 1 >>

\* a loop that a failed file ends
NextIndexStopsOnFailure(kind, i, n) == IF kind = "ok" THEN i + 1 ELSE n

\* the index of the next iteration: a return from the forEach callback, a
\* continue and a caught error all go on with the next file
NextIndex(kind, i, n) == i + 1

\* where an error that leaves main goes: the static script dies with exit code
\* 1, the dynamic one runs the handler of main().catch
Uncaught(v) == IF v = "static" THEN "exited" ELSE "fatal"
UncaughtCode(v, code) == IF v = "static" THEN 1 ELSE code

\* ------------------------------------------------------------------------
\* Initial states
\* ------------------------------------------------------------------------

InitRun ==
    /\ pc = "start"
    /\ tsFiles = <<>>
    /\ index = 0
    /\ successCount = 0
    /\ failureCount = 0
    /\ useSoundStart = useSoundFile
    /\ originalUseSoundContent = NullContent
    /\ raised = FALSE
    /\ exitCode = 0
    /\ log = <<>>
    /\ summary = <<>>
    /\ trace = <<>>

Init ==
    /\ variant \in { "static", "dynamic" }
    /\ outDirExists \in BOOLEAN
    /\ outFiles \in IF outDirExists THEN { NoOutput, StaleOutput } ELSE { NoOutput }
    /\ soundsDirExists \in BOOLEAN
    /\ dirEntries \in IF soundsDirExists
                      THEN UNION { [1..n -> FileCatalogue] : n \in 0..MaxFiles }
                      ELSE { <<>> }
    /\ useSoundFile \in IF variant = "dynamic" THEN UseSoundCatalogue ELSE { UseSoundGood }
    /\ InitRun

\* one file named a, whose dataUri is any string of the alphabet
InitDecode ==
    /\ variant \in { "static", "dynamic" }
    /\ outDirExists = TRUE
    /\ outFiles = NoOutput
    /\ soundsDirExists = TRUE
    /\ \E u \in AllUris : dirEntries = << File("ts", TRUE, << Export(NameA, u) >>) >>
    /\ useSoundFile = UseSoundGood
    /\ InitRun

\* ------------------------------------------------------------------------
\* main
\* ------------------------------------------------------------------------

\* main without the creation of the output directory
CreateOutputDirSkipped ==
    /\ pc = "start"
    /\ pc' = "checkSource"
    /\ UNCHANGED << variant, outDirExists, soundsDirExists, dirEntries, tsFiles, index,
                    successCount, failureCount, outFiles, useSoundFile, useSoundStart,
                    originalUseSoundContent, raised, exitCode, log, summary, trace >>

\* if (!fs.existsSync(OUTPUT_DIR)) fs.mkdirSync(OUTPUT_DIR, { recursive: true })
CreateOutputDir ==
    /\ pc = "start"
    /\ IF outDirExists
       THEN /\ pc' = "checkSource"
            /\ UNCHANGED << outDirExists, exitCode, trace >>
       ELSE \E made \in BOOLEAN :
              IF made
              THEN /\ outDirExists' = TRUE
                   /\ pc' = "checkSource"
                   /\ trace' = Append(trace, Call("mkdir", 0))
                   /\ UNCHANGED exitCode
              ELSE /\ pc' = Uncaught(variant)
                   /\ exitCode' = UncaughtCode(variant, exitCode)
                   /\ trace' = Append(trace, Call("mkdir", 0))
                   /\ UNCHANGED outDirExists
    /\ UNCHANGED << variant, soundsDirExists, dirEntries, tsFiles, index, successCount,
                    failureCount, outFiles, useSoundFile, useSoundStart,
                    originalUseSoundContent, raised, log, summary >>

\* main without the exit on a missing source directory
CheckSourceDirNoExit ==
    /\ pc = "checkSource"
    /\ pc' = "scan"
    /\ UNCHANGED << variant, outDirExists, soundsDirExists, dirEntries, tsFiles, index,
                    successCount, failureCount, outFiles, useSoundFile, useSoundStart,
                    originalUseSoundContent, raised, exitCode, log, summary, trace >>

\* if (!fs.existsSync(SOUNDS_DIR)) process.exit(1)
CheckSourceDir ==
    /\ pc = "checkSource"
    /\ IF ~ soundsDirExists
       THEN pc' = "exited" /\ exitCode' = 1
       ELSE pc' = "scan" /\ UNCHANGED exitCode
    /\ UNCHANGED << variant, outDirExists, soundsDirExists, dirEntries, tsFiles, index,
                    successCount, failureCount, outFiles, useSoundFile, useSoundStart,
                    originalUseSoundContent, raised, log, summary, trace >>

\* const tsFiles = findAllTsFiles(SOUNDS_DIR); if (tsFiles.length === 0) return
\* (readdirSync or statSync may throw)
ScanFiles ==
    /\ pc = "scan"
    /\ \E scanned \in BOOLEAN :
         IF ~ scanned
         THEN /\ pc' = Uncaught(variant)
              /\ exitCode' = UncaughtCode(variant, exitCode)
              /\ UNCHANGED tsFiles
         ELSE /\ tsFiles' = findAllTsFiles(variant, dirEntries)
              /\ pc' = IF Len(tsFiles') = 0 THEN "exited"
                       ELSE IF variant = "static" THEN "loop" ELSE "patch"
              /\ UNCHANGED exitCode
    /\ UNCHANGED << variant, outDirExists, soundsDirExists, dirEntries, index,
                    successCount, failureCount, outFiles, useSoundFile, useSoundStart,
                    originalUseSoundContent, raised, log, summary, trace >>

\* patchUseSoundFile(), called outside the try block
PatchUseSound ==
    /\ pc = "patch"
    /\ LET r == patchUseSoundFile(useSoundFile, originalUseSoundContent)
       IN  /\ useSoundFile' = r.file
           /\ originalUseSoundContent' = r.original
           /\ trace' = IF r.wrote THEN Append(trace, Call("patchUseSound", 0)) ELSE trace
           /\ pc' = IF r.thrown THEN "fatal" ELSE "import"
    /\ UNCHANGED << variant, outDirExists, soundsDirExists, dirEntries, tsFiles, index,
                    successCount, failureCount, outFiles, useSoundStart, raised,
                    exitCode, log, summary >>

\* const { decodeAudioData } = await import(useSoundUrl), inside the try block
ImportUseSound ==
    /\ pc = "import"
    /\ \E loaded \in BOOLEAN :
         IF loaded
         THEN pc' = "loop" /\ UNCHANGED raised
         ELSE pc' = "finally" /\ raised' = TRUE
    /\ trace' = Append(trace, Call("importUseSound", 0))
    /\ UNCHANGED << variant, outDirExists, soundsDirExists, dirEntries, tsFiles, index,
                    successCount, failureCount, outFiles, useSoundFile, useSoundStart,
                    originalUseSoundContent, exitCode, log, summary >>

\* one iteration of tsFiles.forEach (static) or of the for loop (dynamic)
ProcessFile ==
    /\ pc = "loop"
    /\ index < Len(tsFiles)
    /\ LET body == LoopBody(variant, tsFiles[index + 1])
           opened == Call(IF variant = "static" THEN "readFile" ELSE "importSound", index + 1)
       IN  IF body.kind # "save"
           THEN /\ log' = Append(log, [kind |-> body.kind, name |-> body.name])
                /\ successCount' = Counted(body.kind, successCount, failureCount)[1]
                /\ failureCount' = Counted(body.kind, successCount, failureCount)[2]
                /\ index' = NextIndex(body.kind, index, Len(tsFiles))
                /\ trace' = Append(trace, opened)
                /\ UNCHANGED outFiles
           ELSE \E written \in IF outDirExists THEN BOOLEAN ELSE { FALSE } :
                  LET saved == saveAsMp3(outFiles, body.bytes, OutputPath(body.name), written)
                      kind == IF saved.result THEN "ok" ELSE "save"
                  IN  /\ outFiles' = saved.files
                      /\ log' = Append(log, [kind |-> kind, name |-> body.name])
                      /\ successCount' = Counted(kind, successCount, failureCount)[1]
                      /\ failureCount' = Counted(kind, successCount, failureCount)[2]
                      /\ index' = NextIndex(kind, index, Len(tsFiles))
                      /\ trace' = trace \o << opened, Call("writeOutput", index + 1) >>
    /\ UNCHANGED << variant, pc, outDirExists, soundsDirExists, dirEntries, tsFiles,
                    useSoundFile, useSoundStart, originalUseSoundContent, raised,
                    exitCode, summary >>

\* the summary after the loop; the static script then ends, the dynamic one
\* leaves the try block
PrintSummary ==
    /\ pc = "loop"
    /\ index >= Len(tsFiles)
    /\ summary' = << successCount, failureCount >>
    /\ pc' = IF variant = "static" THEN "exited" ELSE "finally"
    /\ UNCHANGED << variant, outDirExists, soundsDirExists, dirEntries, tsFiles, index,
                    successCount, failureCount, outFiles, useSoundFile, useSoundStart,
                    originalUseSoundContent, raised, exitCode, log, trace >>

\* finally { restoreUseSoundFile() }
Finally ==
    /\ pc = "finally"
    /\ LET r == restoreUseSoundFile(useSoundFile, originalUseSoundContent)
       IN  /\ useSoundFile' = r.file
           /\ originalUseSoundContent' = r.original
           /\ trace' = IF r.wrote THEN Append(trace, Call("restoreUseSound", 0)) ELSE trace
    /\ pc' = IF raised THEN "fatal" ELSE "exited"
    /\ UNCHANGED << variant, outDirExists, soundsDirExists, dirEntries, tsFiles, index,
                    successCount, failureCount, outFiles, useSoundStart, raised,
                    exitCode, log, summary >>

\* main().catch(error => { restoreUseSoundFile(); ...; process.exit(1) })
FatalHandler ==
    /\ pc = "fatal"
    /\ LET r == restoreUseSoundFile(useSoundFile, originalUseSoundContent)
       IN  /\ useSoundFile' = r.file
           /\ originalUseSoundContent' = r.original
           /\ trace' = (IF r.wrote THEN Append(trace, Call("restoreUseSound", 0)) ELSE trace)
                        \o << Call("fatalError", 0) >>
    /\ exitCode' = 1
    /\ pc' = "exited"
    /\ UNCHANGED << variant, outDirExists, soundsDirExists, dirEntries, tsFiles, index,
                    successCount, failureCount, outFiles, useSoundStart, raised, log,
                    summary >>

Next ==
    \/ CreateOutputDir
    \/ CheckSourceDir
    \/ ScanFiles
    \/ PatchUseSound
    \/ ImportUseSound
    \/ ProcessFile
    \/ PrintSummary
    \/ Finally
    \/ FatalHandler

\* the pipeline over the catalogue of files
Spec == Init /\ [][Next]_vars

\* the pipeline over one file with an arbitrary dataUri
SpecDecode == InitDecode /\ [][Next]_vars

\* ------------------------------------------------------------------------
\* Vocabulary of the properties
\* ------------------------------------------------------------------------

\* some call op(arg) was made
Called(op, arg) == \E k \in 1..Len(trace) : trace[k].op = op /\ trace[k].arg = arg
CalledAny(op) == \E k \in 1..Len(trace) : trace[k].op = op

\* the lines of the log of a given kind
Lines(Test(_)) == { i \in 1..Len(log) : Test(log[i].kind) }
IsOk(kind) == kind = "ok"
IsFailure(kind) == kind # "ok"

\* the summary has been printed
SummaryReached == summary # <<>>

\* the asset the variant extracts from a file
Extracted(v, file) ==
    IF v = "static" THEN extractSoundAssetFromTsFile(file)
    ELSE IF file.readable THEN extractSoundAsset(file.exports)
    ELSE [kind |-> "process", name |-> Null, dataUri |-> Null]

HasComma(u) == \E k \in 1..Len(u) : u[k] = ","

\* file i of tsFiles yields an asset whose dataUri satisfies Test
YieldsUri(i, Test(_)) ==
    /\ Extracted(variant, tsFiles[i]).kind = "asset"
    /\ Test(Extracted(variant, tsFiles[i]).dataUri)

Max(S) == CHOOSE m \in S : \A x \in S : x <= m

\* ------------------------------------------------------------------------
\* C1
\* ------------------------------------------------------------------------

\* C1: every processed file has incremented exactly one of successCount and
\* failureCount, exactly once (the counters count the success lines and the
\* failure lines of the log, one line per processed file), and the counts the
\* summary prints add up to the number of files findAllTsFiles returned.
C1_CountsMatchFiles ==
    /\ Len(log) = index
    /\ index <= Len(tsFiles)
    /\ successCount = Cardinality(Lines(IsOk))
    /\ failureCount = Cardinality(Lines(IsFailure))
    /\ SummaryReached =>
         /\ summary = << successCount, failureCount >>
         /\ summary[1] + summary[2] = Len(tsFiles)

\* a summary over a success and a failed save
C1_Witness ==
    /\ SummaryReached
    /\ successCount >= 1
    /\ \E i \in 1..Len(log) : log[i].kind = "save"

\* ------------------------------------------------------------------------
\* C2
\* ------------------------------------------------------------------------

\* C2: once the file list is discovered and the loop has started, no per-file
\* failure ends it: the loop is left only through the summary, with every file
\* of tsFiles opened and logged, and every file that yields decodable bytes
\* has had its write attempted, whatever happened to the files before it.
C2_FailuresIsolated ==
    /\ (index > 0 /\ pc # "loop") => SummaryReached
    /\ SummaryReached =>
         \A i \in 1..Len(tsFiles) :
            /\ i <= Len(log)
            /\ Called(IF variant = "static" THEN "readFile" ELSE "importSound", i)
            /\ LoopBody(variant, tsFiles[i]).kind = "save" =>
                 /\ Called("writeOutput", i)
                 /\ log[i].kind \in { "ok", "save" }

\* a file that fails, followed by a file that succeeds
C2_Witness ==
    /\ SummaryReached
    /\ Len(log) = 2
    /\ log[1].kind \in { "read", "extract", "decode", "process", "nosound", "save" }
    /\ log[2].kind = "ok"

\* ------------------------------------------------------------------------
\* C3
\* ------------------------------------------------------------------------

\* C3: when patchUseSoundFile has written the patched use-sound.ts, the file
\* holds its original content again when the process has exited, on the
\* normal path, after a failed import of the patched module, after failures
\* in the loop, and through the fatal-error handler.
C3_RestoredAtExit ==
    (pc = "exited" /\ CalledAny("patchUseSound")) =>
        /\ useSoundFile = useSoundStart
        /\ originalUseSoundContent = NullContent

\* an exit through the fatal-error handler after the patch was written
C3_Witness ==
    /\ pc = "exited"
    /\ CalledAny("patchUseSound")
    /\ CalledAny("fatalError")
    /\ exitCode = 1
    /\ useSoundFile # ReplaceFirst(useSoundStart)

\* ------------------------------------------------------------------------
\* C4
\* ------------------------------------------------------------------------

\* C4: when SOUNDS_DIR does not exist, nothing is ever written to the output
\* directory nor to use-sound.ts, no file is opened, and the process exits
\* with a non-zero code.
C4_MissingSourceDir ==
    ~ soundsDirExists =>
        /\ ~ CalledAny("writeOutput")
        /\ ~ CalledAny("patchUseSound")
        /\ ~ CalledAny("restoreUseSound")
        /\ ~ CalledAny("readFile")
        /\ ~ CalledAny("importSound")
        /\ useSoundFile = useSoundStart
        /\ pc \in { "start", "checkSource", "fatal", "exited" }
        /\ pc = "exited" => exitCode # 0

\* the exit of the dynamic script on a missing source directory, the output
\* directory having been created
C4_Witness ==
    /\ ~ soundsDirExists
    /\ variant = "dynamic"
    /\ pc = "exited"
    /\ outDirExists
    /\ CalledAny("mkdir")
    /\ ~ CalledAny("fatalError")

\* ------------------------------------------------------------------------
\* C5
\* ------------------------------------------------------------------------

NoComma(u) == ~ HasComma(u)

\* C5: a file whose dataUri holds no comma ends as a decode failure of that
\* file alone: its line is the failure line of the decoder, failureCount
\* counts it, no write is attempted for it, and the loop goes on to the
\* summary over every file.
C5_NoCommaFails ==
    /\ \A i \in 1..Len(log) :
          YieldsUri(i, NoComma) =>
             /\ log[i].kind = (IF variant = "static" THEN "decode" ELSE "process")
             /\ ~ Called("writeOutput", i)
             /\ failureCount >= Cardinality({ j \in 1..Len(log) : YieldsUri(j, NoComma) })
    /\ (pc # "loop" /\ \E i \in 1..Len(log) : YieldsUri(i, NoComma)) =>
          (SummaryReached /\ Len(log) = Len(tsFiles))

\* a dataUri without a comma in the first file, the second file extracted
C5_Witness ==
    /\ SummaryReached
    /\ Len(log) = 2
    /\ YieldsUri(1, NoComma)
    /\ log[2].kind = "ok"
    /\ failureCount = 1

\* ------------------------------------------------------------------------
\* C6
\* ------------------------------------------------------------------------

\* C6: the output directory exists from the check of the input root on: at
\* the check, at the scan, at the patch and the import, in the loop, and so
\* before every write of an output file.
C6_OutputDirFirst ==
    /\ pc \in { "checkSource", "scan", "patch", "import", "loop", "finally" } => outDirExists
    /\ CalledAny("writeOutput") => outDirExists

\* a write attempted into a directory the run created
C6_Witness ==
    /\ CalledAny("mkdir")
    /\ CalledAny("writeOutput")
    /\ outDirExists

\* ------------------------------------------------------------------------
\* C7
\* ------------------------------------------------------------------------

\* everything after the first comma of a dataUri that holds one
AfterFirstComma(u) == SubSeq(u, IndexOf(u, ",", 1) + 1, Len(u))

\* what lies between the first comma and the next one, or the end of the
\* dataUri when there is no other comma
FirstSegment(u) ==
    LET rest == AfterFirstComma(u)
        j == IndexOf(rest, ",", 1)
    IN  IF j = 0 THEN rest ELSE SubSeq(rest, 1, j - 1)

\* the base64 decoding each variant applies to the payload it has isolated
VariantDecode(v, payload) ==
    IF v = "static" THEN Ok(BufferFromBase64(payload)) ELSE Atob(payload)

\* the last success line that wrote path p, 0 if none
LastWriter(p) ==
    LET S == { i \in 1..Len(log) : log[i].kind = "ok" /\ OutputPath(log[i].name) = p }
    IN  IF S = {} THEN 0 ELSE Max(S)

\* the bytes written for every extracted file are the decoding of Payload(dataUri)
WrittenBytesDecode(Payload(_)) ==
    \A i \in 1..Len(log) :
       (YieldsUri(i, HasComma) /\ log[i].kind = "ok"
          /\ LastWriter(OutputPath(log[i].name)) = i) =>
          LET asset == Extracted(variant, tsFiles[i])
              decoded == VariantDecode(variant, Payload(asset.dataUri))
          IN  /\ decoded.ok
              /\ OutputPath(asset.name) \in DOMAIN outFiles
              /\ outFiles[OutputPath(asset.name)] = decoded.bytes

\* C7 as claimed: for every dataUri that holds a comma, the bytes written are
\* the base64 decoding of everything after the first comma, further commas
\* included.
C7_WholeRemainderDecoded == WrittenBytesDecode(AfterFirstComma)

\* C7 as amended: for every dataUri that holds a comma, whenever an output
\* file is written for it, its bytes are the variant's base64 decoding of the
\* substring between the first comma and the next comma (or the end of the
\* string); that is everything after the first comma only when the dataUri
\* holds exactly one comma.
C7_FirstSegmentDecoded == WrittenBytesDecode(FirstSegment)

\* a file written from a dataUri with two commas, whose bytes are not those
\* of everything after the first comma
C7_Witness ==
    /\ Len(log) = 1
    /\ log[1].kind = "ok"
    /\ YieldsUri(1, HasComma)
    /\ LET u == Extracted(variant, tsFiles[1]).dataUri
       IN  /\ FirstSegment(u) # AfterFirstComma(u)
           /\ outFiles[OutputPath(NameA)] # <<>>
           /\ outFiles[OutputPath(NameA)] # BufferFromBase64(AfterFirstComma(u))

\* ------------------------------------------------------------------------
\* C8
\* ------------------------------------------------------------------------

\* the payload the decoder isolates holds a character that is neither a base64
\* digit nor the padding sign
InvalidPayload(u) ==
    /\ HasComma(u)
    /\ \E k \in 1..Len(FirstSegment(u)) :
          ~ (IsB64Digit(FirstSegment(u)[k]) \/ FirstSegment(u)[k] = "=")

\* C8: a dataUri whose payload holds a character that is not valid standard
\* base64 makes the decoder fail, in both variants: the file is counted as a
\* failure and no output file is written for it.
C8_InvalidPayloadFails ==
    \A i \in 1..Len(log) :
       YieldsUri(i, InvalidPayload) =>
          /\ log[i].kind # "ok"
          /\ LastWriter(OutputPath(log[i].name)) # i

\* ------------------------------------------------------------------------
\* C9
\* ------------------------------------------------------------------------

\* C9: an output file that files of this run have written holds the decoded
\* bytes of the last file, in walker order, whose write to it succeeded;
\* every successful write is counted in successCount, so the files written
\* can be fewer than successCount.
C9_LastWriteWins ==
    /\ \A p \in DOMAIN outFiles :
          LastWriter(p) # 0 => outFiles[p] = LoopBody(variant, tsFiles[LastWriter(p)]).bytes
    /\ \A i \in Lines(IsOk) : OutputPath(log[i].name) \in DOMAIN outFiles
    /\ successCount = Cardinality(Lines(IsOk))
    /\ Cardinality({ p \in DOMAIN outFiles : LastWriter(p) # 0 }) <= successCount

\* two files named a with different bytes, both counted, one output file
\* holding the bytes of the second
C9_Witness ==
    /\ SummaryReached
    /\ successCount = 2
    /\ DOMAIN outFiles = { OutputPath(NameA) }
    /\ LoopBody(variant, tsFiles[1]).bytes # LoopBody(variant, tsFiles[2]).bytes
    /\ outFiles[OutputPath(NameA)] = LoopBody(variant, tsFiles[2]).bytes

\* ------------------------------------------------------------------------
\* C10
\* ------------------------------------------------------------------------

\* use-sound.ts exists and no line of it starts with the declaration
NoDeclaration(content) ==
    /\ content # Missing
    /\ ~ \E i \in 1..Len(content) : LineMatches(content[i])

\* C10: in the dynamic variant, when no line of use-sound.ts starts with
\* 'async function decodeAudioData', the patched content is never written and
\* the file keeps its content throughout, neither use-sound.ts nor any sound
\* file is imported, no output file is written, and a run that reached the
\* patch ends through the fatal-error handler with exit code 1.
C10_PatchThrowsUnwritten ==
    (variant = "dynamic" /\ NoDeclaration(useSoundStart)) =>
        /\ useSoundFile = useSoundStart
        /\ ~ CalledAny("patchUseSound")
        /\ ~ CalledAny("importUseSound")
        /\ ~ CalledAny("importSound")
        /\ ~ CalledAny("writeOutput")
        /\ pc \notin { "import", "loop", "finally" }
        /\ (pc = "exited" /\ Len(tsFiles) > 0) =>
              /\ exitCode = 1
              /\ CalledAny("fatalError")
              /\ originalUseSoundContent = NullContent

\* the exit after patchUseSoundFile threw: the handler has written the
\* unchanged original back
C10_Witness ==
    /\ variant = "dynamic"
    /\ NoDeclaration(useSoundStart)
    /\ pc = "exited"
    /\ Len(tsFiles) > 0
    /\ CalledAny("restoreUseSound")
    /\ exitCode = 1

====
